---- MODULE Spec2Model ----
(***************************************************************************)
(* Model of ReAct.py: the interactive loop of main(), the two tools, and   *)
(* the agent executor and summary-buffer memory as ReAct.py configures     *)
(* them (handle_parsing_errors=True, default iteration limit,              *)
(* max_token_limit=150).  The LLM, the output parser and the Wikipedia     *)
(* lookup are environment: their outcomes are chosen nondeterministically. *)
(***************************************************************************)
EXTENDS Integers, Sequences, FiniteSets, TLC

(***************************************************************************)
(* Program constants.                                                      *)
(***************************************************************************)
\* memory = ConversationSummaryBufferMemory(max_token_limit=150, ...)
MaxTokenLimit == 150

\* k=10 is passed to the memory; the summary-buffer memory has no such
\* field and never reads it (only the comment says what it should do).
K == 10

\* AgentExecutor.from_agent_and_tools(...) is called without max_iterations:
\* the executor's default of 15 applies.
MaxIterations == 15

\* handle_parsing_errors=True
HandleParsingErrorsOff == FALSE
HandleParsingErrors == TRUE

(***************************************************************************)
(* Bounds of the model: the token counts an appended turn or a produced    *)
(* summary can have.                                                       *)
(***************************************************************************)
SmallTurnTokens == 60
BigTurnTokens == 160
SmallSummaryTokens == 20
BigSummaryTokens == 100

TurnSizes == {SmallTurnTokens, BigTurnTokens}
SummarySizes == {SmallSummaryTokens, BigSummaryTokens}

(***************************************************************************)
(* Input lines.  A line is a sequence of characters.                       *)
(***************************************************************************)
QuitWord == <<"q", "u", "i", "t">>

\* every spelling of quit in upper and lower case letters
QuitVariants ==
    {<<a, b, c, d>> : a \in {"q", "Q"}, b \in {"u", "U"},
                      c \in {"i", "I"}, d \in {"t", "T"}}

OtherLines == {<<>>, <<"q", "u", "i", "t", " ">>, <<"Q", "U", "I">>}

Lines == QuitVariants \cup OtherLines

LowerChar(c) ==
    CASE c = "Q" -> "q"
      [] c = "U" -> "u"
      [] c = "I" -> "i"
      [] c = "T" -> "t"
      [] OTHER -> c

\* query.lower()
LowerIdentity(s) == s
Lower(s) == [k \in 1..Len(s) |-> LowerChar(s[k])]

(***************************************************************************)
(* Tools.                                                                  *)
(***************************************************************************)
\* tools = [Tool(name="Date Time", ...), Tool(name="Wikipedia", ...)]
ToolNames == {"Date Time", "Wikipedia"}

\* names the reasoning step may put in a ToolCall
RequestedNames == ToolNames \cup {"Calculator"}

\* outcomes of wikipedia.summary(query)
LookupOutcomes == {"summary", "DisambiguationError", "PageError", "Exception"}

Returned(v) == [raised |-> FALSE, value |-> v]
Raised(v) == [raised |-> TRUE, value |-> v]

\* get_current_datetime: datetime.now().isoformat()
GetCurrentDatetime == Returned("iso timestamp")

\* get_wikipedia_summary: try / except DisambiguationError / PageError / Exception
GetWikipediaSummaryNoCatchAll(outcome) ==
    CASE outcome = "summary" -> Returned("summary text")
      [] outcome = "DisambiguationError" -> Returned("Disambiguation error: ...")
      [] outcome = "PageError" -> Returned("Page not found.")
      [] OTHER -> Raised(outcome)
GetWikipediaSummary(outcome) ==
    CASE outcome = "summary" -> Returned("summary text")
      [] outcome = "DisambiguationError" -> Returned("Disambiguation error: ...")
      [] outcome = "PageError" -> Returned("Page not found.")
      [] OTHER -> Returned("str(e)")

\* The executor's dispatch of one ToolCall: a registered tool is run once,
\* any other name is answered by an "is not a valid tool" observation.
\* calls is the number of invocations of a registered tool's function.
PerformAgentActionKeyError(tool, outcome) ==
    IF tool = "Date Time" THEN [res |-> GetCurrentDatetime, calls |-> 1]
    ELSE IF tool = "Wikipedia" THEN [res |-> GetWikipediaSummary(outcome), calls |-> 1]
    ELSE [res |-> Raised("KeyError"), calls |-> 0]
PerformAgentActionTwice(tool, outcome) ==
    IF tool = "Date Time" THEN [res |-> GetCurrentDatetime, calls |-> 2]
    ELSE IF tool = "Wikipedia" THEN [res |-> GetWikipediaSummary(outcome), calls |-> 2]
    ELSE [res |-> Returned("is not a valid tool"), calls |-> 0]
PerformAgentAction(tool, outcome) ==
    IF tool = "Date Time" THEN [res |-> GetCurrentDatetime, calls |-> 1]
    ELSE IF tool = "Wikipedia" THEN [res |-> GetWikipediaSummary(outcome), calls |-> 1]
    ELSE [res |-> Returned("is not a valid tool"), calls |-> 0]

\* while self._should_continue(iterations, ...)
ShouldContinueOffByOne(n) == n <= MaxIterations
ShouldContinue(n) == n < MaxIterations

(***************************************************************************)
(* Memory.                                                                 *)
(***************************************************************************)
RECURSIVE BufferTokens(_)
BufferTokens(buf) ==
    IF buf = <<>> THEN 0 ELSE Head(buf).tokens + BufferTokens(Tail(buf))

\* prune(): pop the oldest message while the buffer is over max_token_limit
RECURSIVE PruneBuffer(_)
PruneBuffer(buf) ==
    IF BufferTokens(buf) > MaxTokenLimit THEN PruneBuffer(Tail(buf)) ELSE buf

\* save_context: add_user_message, add_ai_message
AddUserMessageDropped(buf, content, n) == buf
AddUserMessage(buf, content, n) ==
    Append(buf, [role |-> "User", content |-> content, tokens |-> n])

AddAIMessage(buf, content, n) ==
    Append(buf, [role |-> "Assistant", content |-> content, tokens |-> n])

(***************************************************************************)
(* State.                                                                  *)
(***************************************************************************)
VARIABLES
    pc,          \* position of main(): input, awaiting, print, exited, crashed
    query,       \* the line read last
    inProgress,  \* number of AgentRuns started and not ended
    rpc,         \* position of the run: idle, loop, save_input, save_output, prune
    runInput,    \* the input the agent was invoked with
    status,      \* None, Running, Finished, LimitExceeded, Failed
    iterations,  \* completed Reasoning/ToolExecuting cycles of the run
    toolCalls,   \* ToolCall steps of the run that named a registered tool
    invocations, \* invocations of a registered tool's function in the run
    lastStep,    \* the last output of the reasoning step
    lastObs,     \* the last observation recorded
    onlyTool,    \* every reasoning step of the run so far returned ToolCall
    onlyParse,   \* every reasoning step of the run so far was a ParseFailure
    output,      \* the run's output text
    buffer,      \* memory: recent turns
    summary,     \* memory: token size of the running summary (0: empty)
    preBuffer,   \* the buffer when the run started
    evicted      \* the last compaction check evicted turns

vars == <<pc, query, inProgress, rpc, runInput, status, iterations, toolCalls,
          invocations, lastStep, lastObs, onlyTool, onlyParse, output, buffer,
          summary, preBuffer, evicted>>

runVars == <<status, iterations, toolCalls, invocations, lastStep, lastObs,
             onlyTool, onlyParse, output>>
memVars == <<buffer, summary, evicted>>

NoStep == [kind |-> "None", tool |-> "None", lookup |-> "None"]

\* await agent_executor.ainvoke(...): main() is suspended until the run ends
AfterInvokeNoAwait == "input"
AfterInvoke == "awaiting"

Init ==
    /\ pc = "input"
    /\ query = <<>>
    /\ inProgress = 0
    /\ rpc = "idle"
    /\ runInput = <<"None">>
    /\ status = "None"
    /\ iterations = 0
    /\ toolCalls = 0
    /\ invocations = 0
    /\ lastStep = NoStep
    /\ lastObs = "None"
    /\ onlyTool = TRUE
    /\ onlyParse = TRUE
    /\ output = "None"
    /\ buffer = <<>>
    /\ summary = 0
    /\ preBuffer = <<>>
    /\ evicted = FALSE

(***************************************************************************)
(* main()                                                                  *)
(***************************************************************************)
\* query = input(...); if query.lower() == "quit": break
ReadQuit(line) ==
    /\ pc = "input"
    /\ Lower(line) = QuitWord
    /\ query' = line
    /\ pc' = "exited"
    /\ UNCHANGED <<inProgress, rpc, runInput, runVars, memVars, preBuffer>>

\* query = input(...); response = await agent_executor.ainvoke({"input": query})
ReadQuery(line) ==
    /\ pc = "input"
    /\ Lower(line) # QuitWord
    /\ query' = line
    /\ pc' = AfterInvoke
    /\ inProgress' = inProgress + 1
    /\ rpc' = "loop"
    /\ runInput' = line
    /\ status' = "Running"
    /\ iterations' = 0
    /\ toolCalls' = 0
    /\ invocations' = 0
    /\ lastStep' = NoStep
    /\ lastObs' = "None"
    /\ onlyTool' = TRUE
    /\ onlyParse' = TRUE
    /\ output' = "None"
    /\ preBuffer' = buffer
    /\ UNCHANGED memVars

\* print(response["output"])
PrintResponse ==
    /\ pc = "print"
    /\ pc' = "input"
    /\ UNCHANGED <<query, inProgress, rpc, runInput, runVars, memVars, preBuffer>>

(***************************************************************************)
(* The run: the executor's loop.                                           *)
(***************************************************************************)
InLoop == rpc = "loop" /\ status = "Running" /\ ShouldContinue(iterations)

\* an exception leaves ainvoke and main(): nothing catches it
RunRaises ==
    /\ status' = "Failed"
    /\ rpc' = "idle"
    /\ inProgress' = inProgress - 1
    /\ pc' = "crashed"

\* the reasoning step returns ToolCall(tool, input); the tool is dispatched
StepToolCall(tool, outcome) ==
    LET r == PerformAgentAction(tool, outcome) IN
    /\ InLoop
    /\ lastStep' = [kind |-> "ToolCall", tool |-> tool,
                    lookup |-> IF tool = "Wikipedia" THEN outcome ELSE "None"]
    /\ toolCalls' = IF tool \in ToolNames THEN toolCalls + 1 ELSE toolCalls
    /\ invocations' = invocations + r.calls
    /\ onlyParse' = FALSE
    /\ UNCHANGED <<onlyTool, output, query, runInput, memVars, preBuffer>>
    /\ IF r.res.raised
       THEN /\ RunRaises
            /\ UNCHANGED <<iterations, lastObs>>
       ELSE /\ lastObs' = r.res.value
            /\ iterations' = iterations + 1
            /\ UNCHANGED <<status, rpc, inProgress, pc>>

\* the reasoning step returns FinalAnswer
StepFinalAnswer ==
    /\ InLoop
    /\ lastStep' = [kind |-> "FinalAnswer", tool |-> "None", lookup |-> "None"]
    /\ status' = "Finished"
    /\ output' = "final answer"
    /\ rpc' = "save_input"
    /\ onlyTool' = FALSE
    /\ onlyParse' = FALSE
    /\ UNCHANGED <<pc, query, inProgress, runInput, iterations, toolCalls,
                   invocations, lastObs, memVars, preBuffer>>

\* the output parser raises OutputParserException
StepParseFailure ==
    /\ InLoop
    /\ lastStep' = [kind |-> "ParseFailure", tool |-> "None", lookup |-> "None"]
    /\ onlyTool' = FALSE
    /\ UNCHANGED <<onlyParse, output, query, runInput, toolCalls, invocations,
                   memVars, preBuffer>>
    /\ IF HandleParsingErrors
       THEN /\ lastObs' = "Invalid or incomplete response"
            /\ iterations' = iterations + 1
            /\ UNCHANGED <<status, rpc, inProgress, pc>>
       ELSE /\ RunRaises
            /\ UNCHANGED <<iterations, lastObs>>

\* the LLM call fails
StepProviderError ==
    /\ InLoop
    /\ RunRaises
    /\ lastStep' = [kind |-> "ProviderError", tool |-> "None", lookup |-> "None"]
    /\ onlyTool' = FALSE
    /\ onlyParse' = FALSE
    /\ UNCHANGED <<query, runInput, iterations, toolCalls, invocations, lastObs,
                   output, memVars, preBuffer>>

\* the loop condition fails: return_stopped_response
StopIterationLimit ==
    /\ rpc = "loop"
    /\ status = "Running"
    /\ ~ShouldContinue(iterations)
    /\ status' = "LimitExceeded"
    /\ output' = "Agent stopped due to iteration limit or time limit."
    /\ rpc' = "save_input"
    /\ UNCHANGED <<pc, query, inProgress, runInput, iterations, toolCalls,
                   invocations, lastStep, lastObs, onlyTool, onlyParse,
                   memVars, preBuffer>>

(***************************************************************************)
(* The run: memory.save_context(inputs, outputs)                           *)
(***************************************************************************)
\* the loop has returned: its locals are gone, the outputs are kept
SaveInput(n) ==
    /\ rpc = "save_input"
    /\ buffer' = AddUserMessage(buffer, runInput, n)
    /\ rpc' = "save_output"
    /\ iterations' = 0
    /\ toolCalls' = 0
    /\ invocations' = 0
    /\ lastStep' = NoStep
    /\ lastObs' = "None"
    /\ onlyTool' = TRUE
    /\ onlyParse' = TRUE
    /\ UNCHANGED <<pc, query, inProgress, runInput, status, output, summary,
                   evicted, preBuffer>>

SaveOutput(n) ==
    /\ rpc = "save_output"
    /\ buffer' = AddAIMessage(buffer, output, n)
    /\ rpc' = "prune"
    /\ UNCHANGED <<pc, query, inProgress, runInput, runVars, summary, evicted,
                   preBuffer>>

\* prune(): under the limit nothing happens; over it the oldest messages are
\* popped and the LLM writes a new summary of any size
Prune(s) ==
    /\ rpc = "prune"
    /\ buffer' = PruneBuffer(buffer)
    /\ evicted' = (BufferTokens(buffer) > MaxTokenLimit)
    /\ summary' = IF BufferTokens(buffer) > MaxTokenLimit THEN s ELSE summary
    /\ rpc' = "idle"
    /\ inProgress' = inProgress - 1
    /\ pc' = "print"
    /\ UNCHANGED <<query, runInput, runVars, preBuffer>>

\* prune(): the summarising LLM call fails after the messages were popped
PruneProviderError ==
    /\ rpc = "prune"
    /\ BufferTokens(buffer) > MaxTokenLimit
    /\ buffer' = PruneBuffer(buffer)
    /\ evicted' = FALSE
    /\ rpc' = "idle"
    /\ inProgress' = inProgress - 1
    /\ pc' = "crashed"
    /\ UNCHANGED <<query, runInput, runVars, summary, preBuffer>>

Next ==
    \/ \E line \in Lines : ReadQuit(line)
    \/ \E line \in Lines : ReadQuery(line)
    \/ PrintResponse
    \/ \E tool \in RequestedNames, outcome \in LookupOutcomes : StepToolCall(tool, outcome)
    \/ StepFinalAnswer
    \/ StepParseFailure
    \/ StepProviderError
    \/ StopIterationLimit
    \/ \E n \in TurnSizes : SaveInput(n)
    \/ \E n \in TurnSizes : SaveOutput(n)
    \/ \E s \in SummarySizes : Prune(s)
    \/ PruneProviderError

Spec == Init /\ [][Next]_vars

(***************************************************************************)
(* Properties.                                                             *)
(***************************************************************************)
RegisteredNames == {"Date Time", "Wikipedia"}
StoppedMessage == "Agent stopped due to iteration limit or time limit."
RunEnded == status \in {"Finished", "LimitExceeded", "Failed"}

\* C1: a line that spells quit in any letter case ends the loop and no run
\* is created for it (the agent is never invoked with it); every other line
\* read is the input the agent is invoked with.
C1_QuitEndsLoopOthersForwarded ==
    /\ (pc = "exited" <=> query \in QuitVariants)
    /\ (pc = "exited" => inProgress = 0 /\ rpc = "idle")
    /\ runInput \notin QuitVariants
    /\ (status # "None" /\ query \notin QuitVariants => runInput = query)
    /\ (pc = "awaiting" => runInput = query /\ inProgress = 1)

C1_Witness ==
    /\ pc = "exited"
    /\ query = <<"Q", "u", "I", "t">>
    /\ status = "Finished"
    /\ runInput = <<"q", "u", "i", "t", " ">>

\* C2 (as claimed): a run that fails never terminates the interactive loop.
C2_FailedRunKeepsLoopAlive == status = "Failed" => pc # "crashed"

\* C3: the cycle count never exceeds the maximum, every cycle of a running
\* run adds one to it, a run ends LimitExceeded only at exactly the maximum,
\* and a run whose every step was a ToolCall ends LimitExceeded there.
C3_IterationBoundInv ==
    /\ iterations <= MaxIterations
    /\ (status = "LimitExceeded" /\ rpc = "save_input" => iterations = MaxIterations)
    /\ (onlyTool /\ rpc = "save_input" =>
            status = "LimitExceeded" /\ iterations = MaxIterations)
    /\ (status = "Running" /\ iterations = MaxIterations =>
            rpc = "loop" /\ pc = "awaiting")

C3_CycleCounts ==
    (status = "Running" /\ status' = "Running" /\ lastStep' # NoStep)
        => iterations' = iterations + 1

C3_IterationBound == []C3_IterationBoundInv /\ [][C3_CycleCounts]_vars

C3_Witness ==
    /\ status = "LimitExceeded"
    /\ rpc = "save_input"
    /\ onlyTool
    /\ toolCalls = MaxIterations

\* C4: when a run ended with a FinalAnswer, the memory holds the turns it
\* held before the run followed by exactly two new ones, the User turn with
\* the query and then the Assistant turn with the final answer, and nothing
\* is compacted before both are appended.
C4_TwoTurnsInv ==
    /\ (rpc = "save_input" => buffer = preBuffer)
    /\ (rpc = "save_output" =>
            /\ Len(buffer) = Len(preBuffer) + 1
            /\ SubSeq(buffer, 1, Len(preBuffer)) = preBuffer)
    /\ (rpc = "prune" /\ status = "Finished" =>
            /\ Len(buffer) = Len(preBuffer) + 2
            /\ SubSeq(buffer, 1, Len(preBuffer)) = preBuffer
            /\ buffer[Len(buffer) - 1].role = "User"
            /\ buffer[Len(buffer) - 1].content = query
            /\ buffer[Len(buffer)].role = "Assistant"
            /\ buffer[Len(buffer)].content = "final answer")

C4_CompactionLast ==
    (summary' # summary \/ evicted' # evicted \/ Len(buffer') < Len(buffer))
        => rpc = "prune"

C4_TwoTurnsThenCompaction == []C4_TwoTurnsInv /\ [][C4_CompactionLast]_vars

C4_Witness ==
    /\ rpc = "prune"
    /\ status = "Finished"
    /\ Len(preBuffer) = 2
    /\ Len(buffer) = 4

\* C5 (as claimed): after every compaction the recent turns and the summary
\* together are within the token budget, and the turns within the count K.
C5_CompactedWithinBudget ==
    (evicted /\ pc = "print") =>
        /\ BufferTokens(buffer) + summary <= MaxTokenLimit
        /\ Len(buffer) <= K

\* C6: whatever the lookup does, the Wikipedia tool returns a string: the
\* observation is recorded, the run is not failed by it and goes on.
C6_WikipediaNeverRaises ==
    /\ \A o \in LookupOutcomes : ~GetWikipediaSummary(o).raised
    /\ (lastStep.tool = "Wikipedia" =>
            /\ status \in {"Running", "LimitExceeded"}
            /\ pc = "awaiting"
            /\ lastObs = CASE lastStep.lookup = "summary" -> "summary text"
                           [] lastStep.lookup = "DisambiguationError" ->
                                  "Disambiguation error: ..."
                           [] lastStep.lookup = "PageError" -> "Page not found."
                           [] OTHER -> "str(e)")

C6_Witness ==
    /\ lastStep.tool = "Wikipedia"
    /\ lastStep.lookup = "DisambiguationError"
    /\ lastObs = "Disambiguation error: ..."
    /\ status = "Running"
    /\ iterations < MaxIterations

\* C7: a ToolCall naming a tool outside the registry invokes no tool, records
\* the "not a valid tool" observation and leaves the run in its loop.
C7_UnknownToolInv ==
    (lastStep.kind = "ToolCall" /\ lastStep.tool \notin RegisteredNames) =>
        /\ status \in {"Running", "LimitExceeded"}
        /\ lastObs = "is not a valid tool"

C7_UnknownToolStep ==
    (/\ status = "Running"
     /\ status' # "LimitExceeded"
     /\ lastStep'.kind = "ToolCall"
     /\ lastStep'.tool \notin RegisteredNames
     /\ (iterations' # iterations \/ status' # status))
        => /\ invocations' = invocations
           /\ iterations' = iterations + 1
           /\ status' = "Running"
           /\ rpc' = "loop"

C7_UnknownToolIsObservation == []C7_UnknownToolInv /\ [][C7_UnknownToolStep]_vars

C7_Witness ==
    /\ lastStep.tool = "Calculator"
    /\ lastObs = "is not a valid tool"
    /\ status = "Running"
    /\ invocations = 1

\* C8 (as claimed): a run whose parse failures recur to the end of its
\* retries ends Failed.
C8_ParseFailuresEndFailed ==
    (RunEnded /\ onlyParse /\ iterations > 0) => status = "Failed"

\* C8 (amended): a ParseFailure becomes an observation and a cycle of the
\* run; a run whose every step was a ParseFailure ends LimitExceeded after
\* exactly the maximum number of cycles, with the stop message as output.
C8_ParseFailuresBounded ==
    /\ iterations <= MaxIterations
    /\ (lastStep.kind = "ParseFailure" =>
            /\ status \in {"Running", "LimitExceeded"}
            /\ lastObs = "Invalid or incomplete response"
            /\ iterations > 0)
    /\ (RunEnded /\ onlyParse /\ iterations > 0 =>
            /\ status = "LimitExceeded"
            /\ iterations = MaxIterations
            /\ output = StoppedMessage)

C8_Witness ==
    /\ status = "LimitExceeded"
    /\ onlyParse
    /\ iterations = MaxIterations
    /\ lastStep.kind = "ParseFailure"

\* C9: in every run the tool invocations are as many as the ToolCall steps
\* naming a registered tool: such a step invokes once, nothing else invokes.
C9_InvocationsInv == invocations = toolCalls

C9_OnePerStep ==
    /\ (/\ status = "Running"
        /\ lastStep'.kind = "ToolCall"
        /\ lastStep'.tool \in RegisteredNames
        /\ iterations' = iterations + 1)
          => invocations' = invocations + 1
    /\ invocations' > invocations =>
          /\ lastStep'.kind = "ToolCall"
          /\ lastStep'.tool \in RegisteredNames
          /\ invocations' = invocations + 1

C9_OneInvocationPerToolCall == []C9_InvocationsInv /\ [][C9_OnePerStep]_vars

C9_Witness ==
    /\ invocations = 2
    /\ toolCalls = 2
    /\ iterations = 4
    /\ status = "Running"

\* C10: at most one run is in progress; main() reads a line only when no run
\* is, and the memory changes only while main() awaits the run.
C10_OneRunInv ==
    /\ inProgress <= 1
    /\ (pc = "input" => inProgress = 0 /\ rpc = "idle")
    /\ (rpc # "idle" <=> inProgress = 1)
    /\ (inProgress = 1 => pc = "awaiting")

C10_MemoryOnlyInRun ==
    <<buffer, summary>>' # <<buffer, summary>> => pc = "awaiting" /\ inProgress = 1

C10_OneRunAtATime == []C10_OneRunInv /\ [][C10_MemoryOnlyInRun]_vars

C10_Witness ==
    /\ pc = "awaiting"
    /\ inProgress = 1
    /\ rpc = "loop"
    /\ Len(buffer) = 2
    /\ summary > 0
====
